---------------------------- MODULE Spec2Model ----------------------------
(***************************************************************************)
(* Model of the CSV profile transcriber: csv_profile_transcriber.py        *)
(* (CSVProfileTranscriber), insta_transcriber.py (InstaTranscriber) and    *)
(* runpod_handler.py (handler).                                            *)
(*                                                                         *)
(* Strings whose characters the code inspects (headers, count cells) are   *)
(* sequences of one-character strings, so that lower(), replace() and      *)
(* int() are computed character by character.                              *)
(***************************************************************************)
EXTENDS Integers, Sequences, FiniteSets, TLC

VARIABLES
    arg,            \* pure functions: the argument of the call
    ret,            \* pure functions: what the call returned
    op,             \* pure functions: which function was called ("none" before)
    pc,             \* a run: where the entry point stands
    entry,          \* a run: "handler", "main", "preview" or "library"
    tempCsv,        \* the handler's temporary CSV file exists
    tempDir,        \* InstaTranscriber.temp_dir: [exists, files]
    outFiles,       \* the *.txt files of the output directory: [name, mtime, total, body]
    clock,          \* the wall clock, in seconds
    selected,       \* transcribe_posts: its argument posts
    idx,            \* transcribe_posts: the loop's i
    attempts,       \* the calls of process_url so far: [post_number, success, outcome]
    transcriptions, \* transcribe_posts: its list transcriptions
    lastCall,       \* the last call of process_url: [entered, outcome, refused]
    result,         \* what process_csv_file / transcribe_posts returned: [t, path, stage]
    response,       \* how the entry point ended: [kind, output_file, output_text, filename]
    lastWrite,      \* the last report written: [name, existed, computed, collided, refused]
    calls           \* report-writing calls made so far

pureVars == <<arg, ret, op>>
runVars ==
    <<pc, entry, tempCsv, tempDir, outFiles, clock, selected, idx, attempts,
      transcriptions, lastCall, result, response, lastWrite, calls>>
vars == <<pureVars, runVars>>

(***************************************************************************)
(* Bounds of the model                                                     *)
(***************************************************************************)
MaxStrLen == 3
MaxSortLen == 3
MaxListLen == 5
MaxCount == 6
MaxCols == 2
MaxRows == 2
MaxCsvRows == 4
MaxTop == 3
MaxRunRows == 2
MaxClock == 1
MaxCalls == 3
MaxResults == 2
MaxFilterLen == 2

(***************************************************************************)
(* Python values of a CSV cell                                             *)
(*   t = "int"   : int n                                                   *)
(*   t = "float" : finite float n/2 (n counts halves)                      *)
(*   t = "nan"   : float('nan')  (pandas' value of an empty cell)          *)
(*   t = "inf"   : float('inf') when n > 0, float('-inf') when n < 0       *)
(*   t = "none"  : None          (csv.DictReader's value of a short row)   *)
(*   t = "str"   : the string s                                            *)
(***************************************************************************)
IntV(n) == [t |-> "int", n |-> n, s |-> <<>>]
FloatV(halves) == [t |-> "float", n |-> halves, s |-> <<>>]
NaNV == [t |-> "nan", n |-> 0, s |-> <<>>]
InfV(sign) == [t |-> "inf", n |-> sign, s |-> <<>>]
NoneV == [t |-> "none", n |-> 0, s |-> <<>>]
StrV(s) == [t |-> "str", n |-> 0, s |-> s]

\* The key is absent from the record (not a Python value: dict.get's default applies).
MissingV == [t |-> "missing", n |-> 0, s |-> <<>>]

\* An exception raised instead of a value.
RaisedV == [t |-> "raised", n |-> 0, s |-> <<>>]

(***************************************************************************)
(* Dictionaries: a Python dict is the sequence of its <<key, value>> items *)
(* in insertion order, keys unique.                                        *)
(***************************************************************************)
HasKey(d, k) == \E i \in 1..Len(d) : d[i][1] = k

\* dict.get(k, default)
Get(d, k, default) ==
    IF HasKey(d, k) THEN d[CHOOSE i \in 1..Len(d) : d[i][1] = k][2] ELSE default

\* d[k] = v : an existing key keeps its position and takes the new value
SetItem(d, k, v) ==
    IF HasKey(d, k)
    THEN [i \in 1..Len(d) |-> IF d[i][1] = k THEN <<k, v>> ELSE d[i]]
    ELSE Append(d, <<k, v>>)

(***************************************************************************)
(* Canonical keys                                                          *)
(***************************************************************************)
K_url == <<"u", "r", "l">>
K_view_count == <<"v", "i", "e", "w", "_", "c", "o", "u", "n", "t">>
K_like_count == <<"l", "i", "k", "e", "_", "c", "o", "u", "n", "t">>
K_comment_count == <<"c", "o", "m", "m", "e", "n", "t", "_", "c", "o", "u", "n", "t">>
K_profile_name == <<"p", "r", "o", "f", "i", "l", "e", "_", "n", "a", "m", "e">>

CountFields == {K_view_count, K_like_count, K_comment_count}

(***************************************************************************)
(* str.replace(c, ''), str.strip() and int(str)                            *)
(***************************************************************************)
RemoveChar(s, c) == SelectSeq(s, LAMBDA x : x # c)

RECURSIVE LStrip(_)
LStrip(s) == IF s # <<>> /\ s[1] = " " THEN LStrip(Tail(s)) ELSE s

RECURSIVE RStrip(_)
RStrip(s) == IF s # <<>> /\ s[Len(s)] = " " THEN RStrip(SubSeq(s, 1, Len(s) - 1)) ELSE s

Digits == {"0", "1", "2", "3", "4", "5", "6", "7", "8", "9"}

DigitVal(c) ==
    CASE c = "0" -> 0 [] c = "1" -> 1 [] c = "2" -> 2 [] c = "3" -> 3 [] c = "4" -> 4
      [] c = "5" -> 5 [] c = "6" -> 6 [] c = "7" -> 7 [] c = "8" -> 8 [] c = "9" -> 9

RECURSIVE DecVal(_)
DecVal(s) ==
    IF s = <<>> THEN 0
    ELSE 10 * DecVal(SubSeq(s, 1, Len(s) - 1)) + DigitVal(s[Len(s)])

\* int(s) of a string: surrounding whitespace is ignored, then an optional sign
\* and at least one digit; anything else raises ValueError.
IntOfStr(s) ==
    LET t == RStrip(LStrip(s))
        neg == t # <<>> /\ t[1] = "-"
        pos == t # <<>> /\ t[1] = "+"
        body == IF neg \/ pos THEN Tail(t) ELSE t
    IN  IF body # <<>> /\ \A i \in 1..Len(body) : body[i] \in Digits
        THEN IntV(IF neg THEN 0 - DecVal(body) ELSE DecVal(body))
        ELSE RaisedV

\* int(x) of a number: truncation toward zero; NaN raises ValueError and an
\* infinity OverflowError.
IntOfNumber(v) ==
    CASE v.t = "int" -> v
      [] v.t = "float" -> IntV(IF v.n >= 0 THEN v.n \div 2 ELSE 0 - ((0 - v.n) \div 2))
      [] OTHER -> RaisedV

(***************************************************************************)
(* sort_posts_by_metric.get_numeric_value                                  *)
(***************************************************************************)
get_numeric_value(post, key) ==
    LET value == Get(post, key, IntV(0))
    IN  CASE value.t = "str" ->
                LET r == IntOfStr(RemoveChar(RemoveChar(value.s, ","), " "))
                IN  IF r.t = "raised" THEN IntV(0) ELSE r
          [] value.t \in {"int", "float", "nan", "inf"} -> IntOfNumber(value)
          [] OTHER -> IntV(0)

(***************************************************************************)
(* filter_video_posts: the value of view_count compared with zero, and the *)
(* comparison view_count > 0 (None > 0 raises TypeError)                   *)
(***************************************************************************)
filter_view_count(post) ==
    LET view_count == Get(post, K_view_count, IntV(0))
    IN  IF view_count.t = "str"
        THEN LET r == IntOfStr(RemoveChar(view_count.s, ","))
             IN  IF r.t = "raised" THEN IntV(0) ELSE r
        ELSE view_count

\* "yes", "no" or "raised"
GreaterThanZero(v) ==
    CASE v.t \in {"int", "float", "inf"} -> IF v.n > 0 THEN "yes" ELSE "no"
      [] v.t = "nan" -> "no"
      [] OTHER -> "raised"

(***************************************************************************)
(* The state of a run while a pure function is exercised alone, and of the *)
(* pure functions while a run is exercised                                *)
(***************************************************************************)
NoName == [kind |-> "none", profile |-> <<>>, n |-> 0, ts |-> 0, id |-> <<>>]

NoWrite ==
    [name |-> NoName, existed |-> FALSE, computed |-> NoName, collided |-> FALSE,
     refused |-> {}]

NoCall == [entered |-> FALSE, outcome |-> "none", refused |-> {}]

\* output_text of the handler's response: None, or the text read from a file
NoText == [t |-> "none", body |-> <<>>]
TextOf(body) == [t |-> "text", body |-> body]

\* how an entry point ended; the three other fields are those of the
\* handler's success response
Ended(kind) ==
    [kind |-> kind, output_file |-> NoName, output_text |-> NoText, filename |-> NoName]

RunIdle ==
    /\ pc = "idle"
    /\ entry = "none"
    /\ tempCsv = FALSE
    /\ tempDir = [exists |-> FALSE, files |-> {}]
    /\ outFiles = {}
    /\ clock = 0
    /\ selected = <<>>
    /\ idx = 1
    /\ attempts = <<>>
    /\ transcriptions = <<>>
    /\ lastCall = NoCall
    /\ result = [t |-> "pending", path |-> NoName, stage |-> "none"]
    /\ response = Ended("pending")
    /\ lastWrite = NoWrite
    /\ calls = 0

PureIdle ==
    /\ arg = <<>>
    /\ ret = <<>>
    /\ op = "idle"

(***************************************************************************)
(* Inputs of the coercion specification                                    *)
(***************************************************************************)
CountAlphabet == {"0", "1", "5", ",", " ", "-", ".", "a"}

Strings(alphabet, n) == UNION {[1..k -> alphabet] : k \in 0..n}

CountValues ==
    {IntV(n) : n \in {-1, 0, 7}} \cup {FloatV(h) : h \in {-3, 0, 1, 5}}
        \cup {NaNV, InfV(1), InfV(-1), NoneV}
        \cup {StrV(s) : s \in Strings(CountAlphabet, MaxStrLen)}

\* a record whose count field `key` holds v; MissingV leaves the key out
PostWithCount(key, v) ==
    IF v = MissingV THEN <<>> ELSE <<<<key, v>>>>

InitCoerce ==
    /\ arg \in [field : CountFields, value : CountValues \cup {MissingV}]
    /\ ret = <<>>
    /\ op = "none"
    /\ RunIdle

\* both coercions of one count value
Coerce ==
    /\ op = "none"
    /\ op' = "coerce"
    /\ ret' = [sortKey |-> get_numeric_value(PostWithCount(arg.field, arg.value), arg.field),
               filterValue |-> filter_view_count(PostWithCount(K_view_count, arg.value)),
               filterPositive |->
                   GreaterThanZero(filter_view_count(PostWithCount(K_view_count, arg.value)))]
    /\ UNCHANGED <<arg, runVars>>

NextCoerce == Coerce

SpecCoerce == InitCoerce /\ [][NextCoerce]_vars

\* C1: numeric coercion of a count field is total: for every value of a count
\* field both get_numeric_value and filter_video_posts' coercion yield a
\* non-negative integer and never raise.
C1_CoercionTotal ==
    op = "coerce" =>
        /\ ret.sortKey.t = "int" /\ ret.sortKey.n >= 0
        /\ ret.filterValue.t = "int" /\ ret.filterValue.n >= 0
        /\ ret.filterPositive # "raised"

\* C14: the ranker and the video-post filter coerce a count value
\* identically: for every value of a count field the integer
\* sort_posts_by_metric ranks by equals the integer filter_video_posts
\* compares against zero.
C14_CoercionsAgree ==
    op = "coerce" =>
        /\ ret.sortKey.t = "int"
        /\ ret.filterValue = ret.sortKey


(***************************************************************************)
(* Posts: a list element is a dict object; id is the object's identity     *)
(* (its position in the list the caller passed), d its items.              *)
(***************************************************************************)
Post(id, d) == [id |-> id, d |-> d]

Min(a, b) == IF a <= b THEN a ELSE b
Max(a, b) == IF a >= b THEN a ELSE b

\* seq[:n] of Python: a negative n counts from the end
SlicePrefix(seq, n) ==
    SubSeq(seq, 1, IF n >= 0 THEN Min(n, Len(seq)) ELSE Max(Len(seq) + n, 0))

\* seq[n:] of Python, n >= 0
SliceSuffix(seq, n) == SubSeq(seq, n + 1, Len(seq))

(***************************************************************************)
(* sorted(posts, key = get_numeric_value(., sort_by), reverse = True):     *)
(* stable, descending (list.sort keeps equal keys in their original order  *)
(* also when reversed).  Computed as an insertion sort: each element goes  *)
(* behind the elements whose key is not smaller.                           *)
(***************************************************************************)
SortKey(post, sort_by) == get_numeric_value(post.d, sort_by).n

InsertDesc(sorted, x, sort_by) ==
    LET ahead == SelectSeq(sorted, LAMBDA y : SortKey(y, sort_by) >= SortKey(x, sort_by))
        behind == SelectSeq(sorted, LAMBDA y : SortKey(y, sort_by) < SortKey(x, sort_by))
    IN  ahead \o <<x>> \o behind

RECURSIVE SortedDesc(_, _)
SortedDesc(posts, sort_by) ==
    IF posts = <<>> THEN <<>>
    ELSE InsertDesc(SortedDesc(SubSeq(posts, 1, Len(posts) - 1), sort_by),
                    posts[Len(posts)], sort_by)

\* the key function raises for some element (int(nan), int(inf))
KeyRaises(posts, sort_by) ==
    \E i \in 1..Len(posts) : get_numeric_value(posts[i].d, sort_by).t = "raised"

(***************************************************************************)
(* sort_posts_by_metric: an exception of the key function or of sorted()   *)
(* is caught and the input list returned                                   *)
(***************************************************************************)
\* the except clause left out of the key function's way: the records whose
\* key can be computed are sorted and returned
sort_posts_by_metric_skipping(posts, sort_by) ==
    SortedDesc(SelectSeq(posts, LAMBDA x : get_numeric_value(x.d, sort_by).t # "raised"),
               sort_by)

sort_posts_by_metric(posts, sort_by) ==
    IF KeyRaises(posts, sort_by) THEN posts ELSE SortedDesc(posts, sort_by)

(***************************************************************************)
(* filter_non_pinned_posts and select_top_posts                            *)
(***************************************************************************)
PinnedCount == 3

\* the size test written with < : a list of exactly 3 records loses all of them
filter_non_pinned_posts_strict(posts) ==
    IF Len(posts) < PinnedCount THEN posts ELSE SliceSuffix(posts, PinnedCount)

filter_non_pinned_posts(posts) ==
    IF Len(posts) <= PinnedCount THEN posts ELSE SliceSuffix(posts, PinnedCount)

\* the slice taken one record too long
select_top_posts_inclusive(posts, count) == SlicePrefix(posts, count + 1)

select_top_posts(posts, count) == SlicePrefix(posts, count)

(***************************************************************************)
(* Specification of the ranker: every list of up to MaxSortLen records     *)
(* whose three count fields are drawn from the samples, every sort field   *)
(***************************************************************************)
ViewSample == {IntV(1000), StrV(<<"1", ",", "0", "0", "0">>), IntV(7), NaNV}
LikeSample == {IntV(2), MissingV}
CommentSample == {StrV(<<"5">>), FloatV(11)}

SortDict(v, l, c) ==
    PostWithCount(K_view_count, v) \o PostWithCount(K_like_count, l)
        \o PostWithCount(K_comment_count, c)

\* every view count with one like and comment count, and every like and
\* comment count with one view count
SortDicts ==
    {SortDict(v, IntV(2), StrV(<<"5">>)) : v \in ViewSample}
        \cup {SortDict(IntV(7), l, c) : l \in LikeSample, c \in CommentSample}

\* lists in which the element at position i is the object with identity i
PostLists(dicts, n) ==
    UNION {{[i \in 1..k |-> Post(i, f[i])] : f \in [1..k -> dicts]} : k \in 0..n}

InitSort ==
    /\ arg \in [posts : PostLists(SortDicts, MaxSortLen), sort_by : CountFields]
    /\ ret = <<>>
    /\ op = "none"
    /\ RunIdle

Sort ==
    /\ op = "none"
    /\ op' = "sort"
    /\ ret' = sort_posts_by_metric(arg.posts, arg.sort_by)
    /\ UNCHANGED <<arg, runVars>>

NextSort == Sort

SpecSort == InitSort /\ [][NextSort]_vars

\* ret holds the same objects as arg.posts, each once
IsPermutation(out, in) ==
    /\ Len(out) = Len(in)
    /\ \A i \in 1..Len(in) : \E j \in 1..Len(out) : out[j] = in[i]
    /\ \A j \in 1..Len(out) : out[j].id \in 1..Len(in) /\ out[j] = in[out[j].id]

\* C2: sort_posts_by_metric returns a permutation of its input in which the
\* coerced value of the sort field never increases from an element to the
\* next, and records with equal coerced values keep their input order.
C2_SortDescendingStable ==
    op = "sort" =>
        /\ IsPermutation(ret, arg.posts)
        /\ \A i \in 1..(Len(ret) - 1) :
              LET a == get_numeric_value(ret[i].d, arg.sort_by)
                  b == get_numeric_value(ret[i + 1].d, arg.sort_by)
              IN  (a.t = "int" /\ b.t = "int") => a.n >= b.n
        /\ \A i, j \in 1..Len(ret) :
              LET a == get_numeric_value(ret[i].d, arg.sort_by)
                  b == get_numeric_value(ret[j].d, arg.sort_by)
              IN  (i < j /\ a.t = "int" /\ b.t = "int" /\ a.n = b.n) => ret[i].id < ret[j].id

\* C19: sort_posts_by_metric never propagates an exception: when computing
\* a sort key raises, it returns the input list, the same records in the
\* same order.
C19_SortFallback ==
    (op = "sort" /\ KeyRaises(arg.posts, arg.sort_by)) => ret = arg.posts

\* a key raised on a list that is not in descending order, and the list was
\* returned as it was
C19_Witness ==
    /\ op = "sort"
    /\ arg.sort_by = K_view_count
    /\ Len(arg.posts) = 3
    /\ Get(arg.posts[1].d, K_view_count, NoneV) = IntV(7)
    /\ Get(arg.posts[2].d, K_view_count, NoneV) = NaNV
    /\ Get(arg.posts[3].d, K_view_count, NoneV) = IntV(1000)
    /\ ret = arg.posts

(***************************************************************************)
(* Specification of the two truncations: every list of up to MaxListLen    *)
(* records, every count from -1 to MaxCount                                *)
(***************************************************************************)
TruncDicts == {PostWithCount(K_view_count, IntV(n)) : n \in {0, 1}}

InitTrunc ==
    /\ arg \in [posts : PostLists(TruncDicts, MaxListLen), count : -1..MaxCount]
    /\ ret = <<>>
    /\ op = "none"
    /\ RunIdle

FilterNonPinned ==
    /\ op = "none"
    /\ op' = "filter_non_pinned"
    /\ ret' = filter_non_pinned_posts(arg.posts)
    /\ UNCHANGED <<arg, runVars>>

SelectTop ==
    /\ op = "none"
    /\ op' = "select_top"
    /\ ret' = select_top_posts(arg.posts, arg.count)
    /\ UNCHANGED <<arg, runVars>>

NextTrunc == FilterNonPinned \/ SelectTop

SpecTrunc == InitTrunc /\ [][NextTrunc]_vars

\* C3: filter_non_pinned_posts returns its input unchanged when it has 3 or
\* fewer records, otherwise the input without its first 3 records (same
\* records, same order); it never returns an empty list for a non-empty input.
C3_PinnedFilter ==
    op = "filter_non_pinned" =>
        /\ Len(arg.posts) <= 3 => ret = arg.posts
        /\ Len(arg.posts) > 3 =>
              /\ Len(ret) = Len(arg.posts) - 3
              /\ \A i \in 1..Len(ret) : ret[i] = arg.posts[i + 3]
        /\ arg.posts # <<>> => ret # <<>>

C3_Witness ==
    /\ op = "filter_non_pinned"
    /\ Len(arg.posts) = 5
    /\ Len(ret) = 2

\* C5: for a requested count N >= 0 select_top_posts returns exactly the
\* first min(N, len) records of the ranked list, in order.
C5_SelectTop ==
    (op = "select_top" /\ arg.count >= 0) =>
        /\ Len(ret) = Min(arg.count, Len(arg.posts))
        /\ \A i \in 1..Len(ret) : ret[i] = arg.posts[i]

C5_Witness ==
    /\ op = "select_top"
    /\ arg.count = 2
    /\ Len(arg.posts) = 4
    /\ Len(ret) = 2


(***************************************************************************)
(* str.lower() and normalize_column_names                                  *)
(***************************************************************************)
UpperLetters ==
    <<"A", "B", "C", "D", "E", "F", "G", "H", "I", "J", "K", "L", "M",
      "N", "O", "P", "Q", "R", "S", "T", "U", "V", "W", "X", "Y", "Z">>

LowerLetters ==
    <<"a", "b", "c", "d", "e", "f", "g", "h", "i", "j", "k", "l", "m",
      "n", "o", "p", "q", "r", "s", "t", "u", "v", "w", "x", "y", "z">>

LowerChar(c) ==
    IF \E i \in 1..Len(UpperLetters) : UpperLetters[i] = c
    THEN LowerLetters[CHOOSE i \in 1..Len(UpperLetters) : UpperLetters[i] = c]
    ELSE c

Lower(s) == [i \in 1..Len(s) |-> LowerChar(s[i])]

H_reel == <<"r", "e", "e", "l">>
H_post_url == <<"p", "o", "s", "t", "_", "u", "r", "l">>
H_link == <<"l", "i", "n", "k">>
H_views == <<"v", "i", "e", "w", "s">>
H_likes == <<"l", "i", "k", "e", "s">>
H_comments == <<"c", "o", "m", "m", "e", "n", "t", "s">>
H_profile == <<"p", "r", "o", "f", "i", "l", "e">>
H_username == <<"u", "s", "e", "r", "n", "a", "m", "e">>
H_account == <<"a", "c", "c", "o", "u", "n", "t">>

\* a synonym mapped to another synonym instead of the canonical name
column_mappings_chained ==
    << <<H_reel, H_link>>, <<H_post_url, K_url>>, <<H_link, K_url>>,
       <<H_views, K_view_count>>, <<K_view_count, K_view_count>>,
       <<H_likes, K_like_count>>, <<K_like_count, K_like_count>>,
       <<H_comments, K_comment_count>>, <<K_comment_count, K_comment_count>>,
       <<H_profile, K_profile_name>>, <<H_username, K_profile_name>>,
       <<H_account, K_profile_name>> >>

column_mappings ==
    << <<H_reel, K_url>>, <<H_post_url, K_url>>, <<H_link, K_url>>,
       <<H_views, K_view_count>>, <<K_view_count, K_view_count>>,
       <<H_likes, K_like_count>>, <<K_like_count, K_like_count>>,
       <<H_comments, K_comment_count>>, <<K_comment_count, K_comment_count>>,
       <<H_profile, K_profile_name>>, <<H_username, K_profile_name>>,
       <<H_account, K_profile_name>> >>

\* the inner loop over post.items(): items 1..n of d written into a new dict
RECURSIVE NormalizeItems(_, _)
NormalizeItems(d, n) ==
    IF n = 0 THEN <<>>
    ELSE LET normalized_key == Get(column_mappings, Lower(d[n][1]), Lower(d[n][1]))
         IN  SetItem(NormalizeItems(d, n - 1), normalized_key, d[n][2])

\* the new list holds one new dict per row, in row order (id: the row's position)
normalize_column_names(posts) ==
    IF posts = <<>> THEN posts
    ELSE [i \in 1..Len(posts) |-> Post(posts[i].id, NormalizeItems(posts[i].d, Len(posts[i].d)))]

(***************************************************************************)
(* Specification of the normalizer: rows as the readers produce them, all  *)
(* with the same headers (unique, in column order)                         *)
(***************************************************************************)
H_Reel == <<"R", "e", "e", "l">>
H_URL == <<"U", "R", "L">>
H_Views == <<"V", "i", "e", "w", "s">>
H_Note == <<"N", "o", "t", "e">>

HeaderSample == {H_Reel, H_reel, K_url, H_URL, H_Views, K_view_count, H_Note}

Headers(n) ==
    UNION {{h \in [1..k -> HeaderSample] : \A i, j \in 1..k : i # j => h[i] # h[j]} :
              k \in 0..n}

CellSample == {IntV(1), IntV(2)}

RowLists(h, n) ==
    UNION {{[i \in 1..k |-> Post(i, [j \in 1..Len(h) |-> <<h[j], cells[i][j]>>])] :
               cells \in [1..k -> [1..Len(h) -> CellSample]]} : k \in 0..n}

InitNorm ==
    /\ \E h \in Headers(MaxCols) : arg \in RowLists(h, MaxRows)
    /\ ret = <<>>
    /\ op = "none"
    /\ RunIdle

Normalize ==
    /\ op = "none"
    /\ op' = "normalize"
    /\ ret' = [once |-> normalize_column_names(arg),
               twice |-> normalize_column_names(normalize_column_names(arg))]
    /\ UNCHANGED <<arg, runVars>>

NextNorm == Normalize

SpecNorm == InitNorm /\ [][NextNorm]_vars

\* C6: normalize_column_names is idempotent: normalizing the normalized rows
\* gives the normalized rows again (same keys in the same order, same values).
C6_NormalizeIdempotent ==
    op = "normalize" => ret.twice = ret.once

\* a row carrying a mixed-case synonym and its canonical header, merged into one key
C6_Witness ==
    /\ op = "normalize"
    /\ Len(arg) = 2
    /\ HasKey(arg[1].d, H_Reel) /\ HasKey(arg[1].d, K_url)
    /\ Len(ret.once[1].d) = 1
    /\ ret.once[1].d[1] = <<K_url, Get(arg[1].d, K_url, NoneV)>>
    /\ arg[1].d[2][1] = K_url


(***************************************************************************)
(* URLs.  A URL string is the sequence of the pieces between its slashes:  *)
(* "https://www.instagram.com/reel/A/" is                                  *)
(* <<"https:", "", "www.instagram.com", "reel", "A", "">>; the empty       *)
(* string is <<>>.                                                         *)
(***************************************************************************)
UrlV(pieces) == [t |-> "url", n |-> 0, s |-> pieces]

\* '/m/' in url : the piece m with a slash on either side
ContainsMarker(pieces, m) == \E i \in 2..(Len(pieces) - 1) : pieces[i] = m

U_reel == <<"https:", "", "www.instagram.com", "reel", "A", "">>
U_post == <<"https:", "", "www.instagram.com", "p", "B", "">>
U_elsewhere == <<"https:", "", "example.com", "reel", "C", "">>
U_empty == <<>>

(***************************************************************************)
(* filter_video_posts.  The membership test on a url that is no string     *)
(* (None, NaN, a number) raises TypeError, and so does None > 0; either    *)
(* leaves the function through no handler.                                 *)
(***************************************************************************)
FilterRaisesOn(post) ==
    LET url == Get(post.d, K_url, UrlV(U_empty))
    IN  \/ url.t # "url"
        \/ /\ ContainsMarker(url.s, "reel") \/ ContainsMarker(url.s, "p")
           /\ GreaterThanZero(filter_view_count(post.d)) = "raised"

IsVideoPost(post) ==
    LET url == Get(post.d, K_url, UrlV(U_empty))
    IN  /\ ContainsMarker(url.s, "reel") \/ ContainsMarker(url.s, "p")
        /\ \/ GreaterThanZero(filter_view_count(post.d)) = "yes"
           \/ ContainsMarker(url.s, "reel")

\* [raised, posts]
filter_video_posts(posts) ==
    IF \E i \in 1..Len(posts) : FilterRaisesOn(posts[i])
    THEN [raised |-> TRUE, posts |-> <<>>]
    ELSE [raised |-> FALSE, posts |-> SelectSeq(posts, IsVideoPost)]

(***************************************************************************)
(* read_csv_data: the rows the pandas parse ("pandas") or, when it raises,  *)
(* the csv.DictReader parse ("fallback") returns; the empty list when both *)
(* raise ("failed")                                                        *)
(***************************************************************************)
ParseOutcomes == {"pandas", "fallback", "failed"}

read_csv_data(csv) == IF csv.parse = "failed" THEN <<>> ELSE csv.rows

(***************************************************************************)
(* process_csv_file from reading the file to the call of transcribe_posts. *)
(* exit: "none" (returned None), "raised", or "transcribe" (top_posts are  *)
(* handed to transcribe_posts).  Each stage's argument is recorded, and    *)
(* in stages the methods called, in the order of the calls.                *)
(***************************************************************************)
\* the test of line 390 left out
NoPosts_ignored(posts) == FALSE

\* line 390: if not posts
NoPosts(posts) == posts = <<>>

\* the pinned filter never applied
PinnedStage_skipped(posts, filter_pinned) == posts

\* lines 410-411
PinnedStage(posts, filter_pinned) ==
    IF filter_pinned THEN filter_non_pinned_posts(posts) ELSE posts

process_csv_prefix(csv, top_count, sort_by, filter_pinned) ==
    LET posts == read_csv_data(csv)
        normalized == normalize_column_names(posts)
        filtered == filter_video_posts(normalized)
        ranker_input == PinnedStage(filtered.posts, filter_pinned)
        ranked == sort_posts_by_metric(ranker_input, sort_by)
        top_posts == select_top_posts(ranked, top_count)
        stopped == [exit |-> "none", video_posts |-> <<>>, ranker_called |-> FALSE,
                    ranker_input |-> <<>>, top_posts |-> <<>>,
                    stages |-> <<"read_csv_data">>]
        at_filter == <<"read_csv_data", "normalize_column_names", "filter_video_posts">>
    IN  IF NoPosts(posts) THEN stopped
        ELSE IF filtered.raised THEN [stopped EXCEPT !.exit = "raised", !.stages = at_filter]
        ELSE IF filtered.posts = <<>> THEN [stopped EXCEPT !.stages = at_filter]
        ELSE [exit |-> "transcribe", video_posts |-> filtered.posts, ranker_called |-> TRUE,
              ranker_input |-> ranker_input, top_posts |-> top_posts,
              stages |-> at_filter
                  \o (IF filter_pinned THEN <<"filter_non_pinned_posts">> ELSE <<>>)
                  \o <<"sort_posts_by_metric", "select_top_posts", "transcribe_posts">>]

(***************************************************************************)
(* Specification of the selection: every file of up to MaxCsvRows rows     *)
(* with the columns Reel and Views, every count from 0 to MaxTop           *)
(***************************************************************************)
CsvRowSample ==
    { << <<H_Reel, UrlV(U_reel)>>, <<H_Views, StrV(<<"1", ",", "0", "0", "0">>)>> >>,
      << <<H_Reel, UrlV(U_elsewhere)>>, <<H_Views, IntV(5)>> >>,
      << <<H_Reel, UrlV(U_post)>>, <<H_Views, IntV(0)>> >>,
      << <<H_Reel, UrlV(U_post)>>, <<H_Views, IntV(7)>> >>,
      << <<H_Reel, NaNV>>, <<H_Views, IntV(5)>> >> }

InitSelect ==
    /\ arg \in [csv : [parse : ParseOutcomes,
                       rows : PostLists(CsvRowSample, MaxCsvRows)],
                top_count : 0..MaxTop,
                sort_by : {K_view_count},
                filter_pinned : BOOLEAN]
    /\ ret = <<>>
    /\ op = "none"
    /\ RunIdle

ProcessCsvPrefix ==
    /\ op = "none"
    /\ op' = "process_csv_file"
    /\ ret' = process_csv_prefix(arg.csv, arg.top_count, arg.sort_by, arg.filter_pinned)
    /\ UNCHANGED <<arg, runVars>>

NextSelect == ProcessCsvPrefix

SpecSelect == InitSelect /\ [][NextSelect]_vars

\* the case of scenario B: 4 video-post rows, pinned filter on, count <= 3
ScenarioB ==
    /\ op = "process_csv_file"
    /\ ret.ranker_called
    /\ Len(ret.video_posts) = 4
    /\ arg.filter_pinned
    /\ arg.top_count <= 3

\* C4 as stated: in scenario B the pinned filter is skipped and all 4 rows
\* are passed to the ranker.
C4_ScenarioB_AllFourRanked ==
    ScenarioB => ret.ranker_input = ret.video_posts

\* C4 as amended: in scenario B the pinned filter drops the first 3 video
\* posts and the ranker is passed the 4th alone; the filter is skipped, and
\* every video post passed on, when there are 3 or fewer video posts.
C4_ScenarioB_Amended ==
    (op = "process_csv_file" /\ ret.ranker_called /\ arg.filter_pinned /\ arg.top_count <= 3) =>
        /\ Len(ret.video_posts) = 4 => ret.ranker_input = <<ret.video_posts[4]>>
        /\ Len(ret.video_posts) <= 3 => ret.ranker_input = ret.video_posts

C4_Witness ==
    /\ ScenarioB
    /\ Len(arg.csv.rows) = 4
    /\ Len(ret.ranker_input) = 1
    /\ ret.ranker_input[1].id = 4

\* C12: when both the pandas parse and the csv.DictReader parse fail,
\* read_csv_data returns the empty list and process_csv_file returns None
\* having called neither the normalizer, a filter, the ranker, the selector
\* nor transcribe_posts.
C12_ParseFailureReturnsNone ==
    (op = "process_csv_file" /\ arg.csv.parse = "failed") =>
        /\ read_csv_data(arg.csv) = <<>>
        /\ ret.exit = "none"
        /\ ret.stages = <<"read_csv_data">>
        /\ ~ret.ranker_called
        /\ ret.top_posts = <<>>

\* both parses failed on a file of four rows that would all be video posts
C12_Witness ==
    /\ op = "process_csv_file"
    /\ arg.csv.parse = "failed"
    /\ Len(arg.csv.rows) = 4
    /\ \A i \in 1..4 : arg.csv.rows[i].d[1][2] = UrlV(U_reel)
    /\ ret.exit = "none"
    /\ ret.stages = <<"read_csv_data">>

(***************************************************************************)
(* Specification of the video-post filter: every list of up to             *)
(* MaxFilterLen normalized records whose url and view_count are drawn from *)
(* the samples (pandas reads an empty cell as NaN, csv.DictReader a short  *)
(* row's cell as None)                                                     *)
(***************************************************************************)
U_profile == <<"https:", "", "www.instagram.com", "alice", "">>

FilterUrlSample == {UrlV(U_reel), UrlV(U_post), UrlV(U_profile), NaNV, MissingV}

FilterViewSample == {IntV(0), IntV(5), StrV(<<"1", ",", "0", "0", "0">>), NoneV}

FilterDicts ==
    {PostWithCount(K_url, u) \o PostWithCount(K_view_count, v) :
        u \in FilterUrlSample, v \in FilterViewSample}

InitFilter ==
    /\ arg \in PostLists(FilterDicts, MaxFilterLen)
    /\ ret = <<>>
    /\ op = "none"
    /\ RunIdle

FilterVideoPosts ==
    /\ op = "none"
    /\ op' = "filter_video_posts"
    /\ ret' = filter_video_posts(arg)
    /\ UNCHANGED <<arg, runVars>>

NextFilter == FilterVideoPosts

SpecFilter == InitFilter /\ [][NextFilter]_vars

\* the records C15 says are retained
C15_Retained(post) ==
    LET url == Get(post.d, K_url, UrlV(U_empty))
    IN  /\ url.t = "url"
        /\ ContainsMarker(url.s, "reel") \/ ContainsMarker(url.s, "p")
        /\ \/ GreaterThanZero(filter_view_count(post.d)) = "yes"
           \/ ContainsMarker(url.s, "reel")

\* C15: filter_video_posts returns exactly the records whose url contains
\* '/reel/' or '/p/' and whose coerced view_count is positive or whose url
\* contains '/reel/': the same objects, unchanged, in input order.
C15_FilterRetainsVideoPosts ==
    op = "filter_video_posts" =>
        /\ ~ret.raised
        /\ ret.posts = SelectSeq(arg, C15_Retained)


(***************************************************************************)
(* InstaTranscriber.is_valid_url and the file names.  A profile name is,   *)
(* like a URL, the sequence of the pieces between its slashes: 'alice' is  *)
(* <<"alice">>, 'a/b' is <<"a", "b">>.                                     *)
(***************************************************************************)
SupportedDomains ==
    {"instagram.com", "www.instagram.com", "tiktok.com", "www.tiktok.com", "vm.tiktok.com"}

is_valid_url(pieces) ==
    /\ Len(pieces) >= 3
    /\ pieces[1] \in {"https:", "http:"}
    /\ pieces[2] = ""
    /\ pieces[3] \in SupportedDomains

\* save_transcription's safe_url: the scheme and every slash are dropped
SafeUrl(pieces) == SelectSeq(pieces, LAMBDA x : x \notin {"https:", "http:", ""})

\* transcription_<timestamp>_<safe_url>.txt
TranscriptionName(ts, pieces) ==
    [kind |-> "transcription", profile |-> <<>>, n |-> 0, ts |-> ts, id |-> SafeUrl(pieces)]

\* <profile>top<N>transcripts.txt
BatchName(profile, n) == [kind |-> "top", profile |-> profile, n |-> n, ts |-> -1, id |-> <<>>]

\* <profile>top<N>transcripts_<timestamp>.txt
BatchNameAt(profile, n, ts) ==
    [kind |-> "top", profile |-> profile, n |-> n, ts |-> ts, id |-> <<>>]

\* quick_<profile>_<reel_id>_<timestamp>.txt
QuickName(profile, reel_id, ts) ==
    [kind |-> "quick", profile |-> profile, n |-> 0, ts |-> ts, id |-> <<reel_id>>]

\* the piece that follows the first '/reel/' of the url, or "unknown"
extract_reel_id(pieces) ==
    IF ContainsMarker(pieces, "reel")
    THEN LET i == CHOOSE k \in 2..(Len(pieces) - 1) :
                     /\ pieces[k] = "reel"
                     /\ \A j \in 2..(k - 1) : pieces[j] # "reel"
         IN  pieces[i + 1]
    ELSE "unknown"

Exists(files, name) == \E f \in files : f.name = name

\* open(path, 'w') and write: a file of that name is replaced
\* total is the number of the line 'Total Posts Transcribed' (0 in a
\* transcription file, which has no such line)
WriteFile(files, name, now, total, body) ==
    {f \in files : f.name # name}
        \cup {[name |-> name, mtime |-> now, total |-> total, body |-> body]}

(***************************************************************************)
(* save_transcription: the file written for a url holds its transcription  *)
(* (a transcription is identified by the url it was produced from)         *)
(***************************************************************************)
save_transcription(files, now, pieces) ==
    WriteFile(files, TranscriptionName(now, pieces), now, 0,
              <<[post_number |-> 0, url |-> pieces, text |-> pieces]>>)

\* the *.txt files of the newest modification time: max() returns one of
\* them (st_mtime has the granularity of the file system's timestamps, here
\* that of the clock)
Latest(files) == {f \in files : \A g \in files : g.mtime <= f.mtime}

\* the text transcribe_posts reads out of latest_file
ReadTranscription(f) ==
    IF f.name.kind = "transcription" THEN f.body[1].text ELSE <<"text of a report">>

(***************************************************************************)
(* create_combined_document: the file name, the write, and                 *)
(* cleanup_individual_files' unlinks.  [files, path, existed, computed]    *)
(***************************************************************************)
\* lines 257-264: the name computed first
ComputedFilename(now, trans, profile_name, quick_transcribe) ==
    IF quick_transcribe /\ Len(trans) = 1
    THEN QuickName(profile_name, extract_reel_id(trans[1].url), now)
    ELSE BatchName(profile_name, Len(trans))

ReportFilename(files, now, trans, profile_name, quick_transcribe) ==
    LET computed == ComputedFilename(now, trans, profile_name, quick_transcribe)
    IN  IF Exists(files, computed)
        THEN BatchNameAt(profile_name, Len(trans), now)
        ELSE computed

\* open(filepath, 'w') of a name with a slash: the directory
\* <output_dir>/<first piece> does not exist and open raises
OpenRaises(name) == Len(name.profile) > 1

\* the try clause around the whole loop: the first unlink that raises ends it
cleanup_individual_files_one_try(files, trans, refused) ==
    {f \in files :
        \A i \in 1..Len(trans) :
            \/ trans[i].file_path # f.name
            \/ \E j \in 1..i : trans[j].file_path \in refused}

\* lines 335-344: every result's file is unlinked; refused are the names
\* whose unlink raises, which is reported and the loop goes on
cleanup_individual_files(files, trans, refused) ==
    {f \in files :
        \A i \in 1..Len(trans) : trans[i].file_path # f.name \/ f.name \in refused}

create_combined_document(files, now, trans, profile_name, quick_transcribe, refused) ==
    LET filename == ReportFilename(files, now, trans, profile_name, quick_transcribe)
        body == [i \in 1..Len(trans) |->
                    [post_number |-> trans[i].post_number, url |-> trans[i].url,
                     text |-> trans[i].transcription]]
    IN  [files |-> cleanup_individual_files(
                       WriteFile(files, filename, now, Len(trans), body), trans, refused),
         path |-> filename,
         existed |-> Exists(files, filename),
         computed |-> ComputedFilename(now, trans, profile_name, quick_transcribe)]

(***************************************************************************)
(* process_url.  Its outcomes once the url is valid:                       *)
(*   download_failed, extract_failed, transcribe_failed : a stage returned *)
(*       None; empty_text : the transcription is '' ; all return False     *)
(*   save_failed : save_transcription raised, the exception leaves         *)
(*       process_url                                                       *)
(*   ok : the transcription is saved, process_url returns True             *)
(***************************************************************************)
TempKinds == {"partial", "video", "audio"}

Outcomes(pieces) ==
    IF is_valid_url(pieces)
    THEN {"download_failed", "extract_failed", "transcribe_failed", "empty_text",
          "save_failed", "ok"}
    ELSE {"invalid_url"}

\* the files the stages may have put into temp_dir when process_url ends so
Created(outcome) ==
    CASE outcome = "invalid_url" -> {{}}
      [] outcome = "download_failed" -> {{}, {"partial"}}
      [] outcome = "extract_failed" -> {{"video"}, {"video", "audio"}}
      [] OTHER -> {{"video", "audio"}}

\* the clean-up run only after a saved transcription, not in a finally clause
FilesLeft_not_finally(outcome, present, refused) ==
    IF outcome = "ok" THEN present \cap refused ELSE present

\* the finally clause: os.remove of every file of temp_dir; a removal that
\* raises is reported and the file stays
FilesLeft(outcome, present, refused) ==
    IF outcome = "invalid_url" THEN present ELSE present \cap refused

(***************************************************************************)
(* transcribe_posts' loop: the iteration that follows iteration i.  An     *)
(* exception of process_url is caught by the loop body's except clause.    *)
(***************************************************************************)
\* the number taken from the count of successes, not from enumerate
PostNumber_of_success(i, successful_count) == successful_count + 1

\* line 195: i of enumerate(posts, 1)
PostNumber(i, successful_count) == i

\* without the except clause the exception ends the loop
NextIndex_uncaught(outcome, i, n) == IF outcome = "save_failed" THEN n + 1 ELSE i + 1

NextIndex(outcome, i, n) == i + 1

(***************************************************************************)
(* A run                                                                   *)
(***************************************************************************)
P_alice == <<"alice">>
P_nested == <<"a", "b">>

ProfileSample == {P_alice, P_nested}

Init ==
    /\ PureIdle
    /\ pc = "start"
    /\ entry = "none"
    /\ tempCsv = FALSE
    /\ tempDir = [exists |-> FALSE, files |-> {}]
    /\ outFiles = {}
    /\ clock = 0
    /\ selected = <<>>
    /\ idx = 1
    /\ attempts = <<>>
    /\ transcriptions = <<>>
    /\ lastCall = NoCall
    /\ result = [t |-> "pending", path |-> NoName, stage |-> "none"]
    /\ response = Ended("pending")
    /\ lastWrite = NoWrite
    /\ calls = 0

\* handler, lines 11-33: a request without posts is answered at once;
\* otherwise the posts are written to a temporary CSV file
HandlerStart ==
    /\ pc = "start"
    /\ \E has_posts \in BOOLEAN :
          IF has_posts
          THEN /\ entry' = "handler"
               /\ tempCsv' = TRUE
               /\ pc' = "construct"
               /\ UNCHANGED response
          ELSE /\ entry' = "handler"
               /\ response' = Ended("failure")
               /\ pc' = "done"
               /\ UNCHANGED tempCsv
    /\ UNCHANGED <<pureVars, tempDir, outFiles, clock, selected, idx, attempts,
                   transcriptions, lastCall, result, lastWrite, calls>>

\* main, lines 454-466: with or without --preview; a missing file ends the run
MainStart ==
    /\ pc = "start"
    /\ \E preview \in BOOLEAN, file_exists \in BOOLEAN :
          /\ entry' = IF preview THEN "preview" ELSE "main"
          /\ pc' = IF file_exists THEN "construct" ELSE "done"
          /\ response' = IF file_exists THEN response ELSE Ended("not found")
    /\ UNCHANGED <<pureVars, tempCsv, tempDir, outFiles, clock, selected, idx, attempts,
                   transcriptions, lastCall, result, lastWrite, calls>>

\* a caller that constructs CSVProfileTranscriber and calls transcribe_posts
LibraryStart ==
    /\ pc = "start"
    /\ entry' = "library"
    /\ pc' = "construct"
    /\ UNCHANGED <<pureVars, tempCsv, tempDir, outFiles, clock, selected, idx, attempts,
                   transcriptions, lastCall, result, response, lastWrite, calls>>

\* CSVProfileTranscriber.__init__ and InstaTranscriber.__init__: mkdtemp, then
\* the Whisper model is loaded, which may raise
Construct ==
    /\ pc = "construct"
    /\ tempDir' = [exists |-> TRUE, files |-> {}]
    /\ \E loaded \in BOOLEAN :
          IF loaded
          THEN pc' = "select" /\ UNCHANGED <<result, response>>
          ELSE /\ result' = [t |-> "raised", path |-> NoName, stage |-> "construct"]
               /\ response' = Ended(IF entry = "handler" THEN "failure" ELSE "crash")
               /\ pc' = "done"
    /\ UNCHANGED <<pureVars, entry, tempCsv, outFiles, clock, selected, idx, attempts,
                   transcriptions, lastCall, lastWrite, calls>>

RunCsvs == [parse : ParseOutcomes, rows : PostLists(CsvRowSample, MaxRunRows)]

\* process_csv_file up to its call of transcribe_posts (handler: filter_pinned
\* is False); main's preview branch does the same steps and prints
ProcessCsvFile ==
    /\ pc = "select"
    /\ entry \in {"handler", "main", "preview"}
    /\ \E csv \in RunCsvs, top_count \in 0..MaxRunRows,
          filter_pinned \in (IF entry = "handler" THEN {FALSE} ELSE BOOLEAN) :
          LET r == process_csv_prefix(csv, top_count, K_view_count, filter_pinned)
          IN  CASE r.exit = "raised" ->
                      /\ result' = [t |-> "raised", path |-> NoName, stage |-> "process_csv_file"]
                      /\ pc' = IF entry = "preview" THEN "done" ELSE "returned"
                      /\ response' = IF entry = "preview" THEN Ended("crash") ELSE response
                      /\ UNCHANGED selected
                [] r.exit = "none" \/ (r.exit = "transcribe" /\ entry = "preview") ->
                      /\ result' = [t |-> "none", path |-> NoName, stage |-> "process_csv_file"]
                      /\ pc' = IF entry = "preview" THEN "done" ELSE "returned"
                      /\ response' = IF entry = "preview" THEN Ended("printed") ELSE response
                      /\ UNCHANGED selected
                [] OTHER ->
                      /\ selected' = r.top_posts
                      /\ pc' = "loop"
                      /\ UNCHANGED <<result, response>>
    /\ UNCHANGED <<pureVars, entry, tempCsv, tempDir, outFiles, clock, idx, attempts,
                   transcriptions, lastCall, lastWrite, calls>>

LibraryDicts ==
    { << <<K_url, UrlV(U_reel)>> >>, << <<K_url, UrlV(U_elsewhere)>> >>,
      << <<K_url, UrlV(U_empty)>> >>, <<>> }

\* transcribe_posts called with a list of the caller's own
CallTranscribePosts ==
    /\ pc = "select"
    /\ entry = "library"
    /\ selected' \in PostLists(LibraryDicts, MaxRunRows)
    /\ pc' = "loop"
    /\ UNCHANGED <<pureVars, entry, tempCsv, tempDir, outFiles, clock, idx, attempts,
                   transcriptions, lastCall, result, response, lastWrite, calls>>


\* one iteration of transcribe_posts' loop: a post without url is skipped;
\* otherwise process_url runs to its end (its finally clause included) and,
\* when it returned True, the newest *.txt of the output directory is read
TranscribePost ==
    /\ pc = "loop"
    /\ idx <= Len(selected)
    /\ LET post == selected[idx]
           url == Get(post.d, K_url, UrlV(U_empty))
       IN  IF url.s = <<>>
           THEN /\ idx' = idx + 1
                /\ UNCHANGED <<tempDir, outFiles, clock, attempts, transcriptions, lastCall>>
           ELSE \E outcome \in Outcomes(url.s), dt \in 0..(IF clock < MaxClock THEN 1 ELSE 0) :
                \E created \in Created(outcome) :
                \E refused \in (IF outcome = "invalid_url" THEN {{}}
                                ELSE SUBSET (tempDir.files \cup created)) :
                   LET now == clock + dt
                       saved == IF outcome = "ok"
                                THEN save_transcription(outFiles, now, url.s)
                                ELSE outFiles
                   IN  /\ clock' = now
                       /\ tempDir' = [tempDir EXCEPT
                              !.files = FilesLeft(outcome, tempDir.files \cup created, refused)]
                       /\ lastCall' = [entered |-> outcome # "invalid_url",
                                       outcome |-> outcome, refused |-> refused]
                       /\ attempts' = Append(attempts,
                              [post_number |-> idx, success |-> outcome = "ok",
                               outcome |-> outcome])
                       /\ outFiles' = saved
                       /\ idx' = NextIndex(outcome, idx, Len(selected))
                       /\ IF outcome = "ok"
                          THEN \E latest_file \in Latest(saved) :
                                  transcriptions' = Append(transcriptions,
                                      [post_number |-> PostNumber(idx, Len(transcriptions)),
                                       url |-> url.s,
                                       transcription |-> ReadTranscription(latest_file),
                                       csv_data |-> post, file_path |-> latest_file.name])
                          ELSE UNCHANGED transcriptions
    /\ UNCHANGED <<pureVars, pc, entry, tempCsv, selected, result, response, lastWrite, calls>>

\* transcribe_posts after its loop: None without a transcription, otherwise
\* create_combined_document (whose open raises for a file name with a
\* slash in it), cleanup_individual_files
\* and InstaTranscriber.cleanup
FinishTranscribe ==
    /\ pc = "loop"
    /\ idx > Len(selected)
    /\ pc' = "returned"
    /\ IF transcriptions = <<>>
       THEN /\ result' = [t |-> "none", path |-> NoName, stage |-> "transcribe_posts"]
            /\ UNCHANGED <<tempDir, outFiles, lastWrite, calls>>
       ELSE \E quick_transcribe \in (IF entry = "main" THEN {FALSE} ELSE BOOLEAN),
               profile_name \in ProfileSample,
               refused \in SUBSET {transcriptions[i].file_path : i \in 1..Len(transcriptions)},
               removed \in (IF tempDir.files = {} THEN {TRUE} ELSE BOOLEAN) :
               IF ~OpenRaises(ReportFilename(outFiles, clock, transcriptions,
                                             profile_name, quick_transcribe))
               THEN LET doc == create_combined_document(outFiles, clock, transcriptions,
                                                        profile_name, quick_transcribe, refused)
                    IN  /\ outFiles' = doc.files
                        /\ lastWrite' = [name |-> doc.path, existed |-> doc.existed,
                                         computed |-> doc.computed,
                                         collided |-> Exists(outFiles, doc.computed),
                                         refused |-> refused]
                        /\ calls' = calls + 1
                        /\ tempDir' = IF removed THEN [exists |-> FALSE, files |-> {}]
                                      ELSE tempDir
                        /\ result' = [t |-> "path", path |-> doc.path,
                                      stage |-> "transcribe_posts"]
               ELSE /\ result' = [t |-> "raised", path |-> NoName,
                                  stage |-> "create_combined_document"]
                    /\ UNCHANGED <<tempDir, outFiles, lastWrite, calls>>
    /\ UNCHANGED <<pureVars, entry, tempCsv, clock, selected, idx, attempts,
                   transcriptions, lastCall, response>>

\* <profile_name>_transcription.txt, the handler's fallback filename
FallbackName(profile) ==
    [kind |-> "fallback", profile |-> profile, n |-> 0, ts |-> -1, id |-> <<>>]

\* handler, lines 46-70: the response built from what process_csv_file
\* returned (a path or None); str(None) is the path 'None'
handler_response(result_file, files, profile_name) ==
    IF result_file.t = "path" /\ Exists(files, result_file.path)
    THEN [kind |-> "success", output_file |-> result_file.path,
          output_text |-> TextOf((CHOOSE f \in files : f.name = result_file.path).body),
          filename |-> result_file.path]
    ELSE [kind |-> "success",
          output_file |-> IF result_file.t = "path" THEN result_file.path ELSE NoName,
          output_text |-> NoText,
          filename |-> FallbackName(profile_name)]

\* handler, lines 46-72: the temporary CSV is unlinked on the way to the
\* success response; an exception goes to the except clause instead
HandlerFinish ==
    /\ pc = "returned"
    /\ entry = "handler"
    /\ pc' = "done"
    /\ IF result.t = "raised"
       THEN response' = Ended("failure") /\ UNCHANGED tempCsv
       ELSE /\ \E profile_name \in ProfileSample :
                  response' = handler_response(result, outFiles, profile_name)
            /\ tempCsv' = FALSE
    /\ UNCHANGED <<pureVars, entry, tempDir, outFiles, clock, selected, idx, attempts,
                   transcriptions, lastCall, result, lastWrite, calls>>

\* main, lines 496-500
MainFinish ==
    /\ pc = "returned"
    /\ entry = "main"
    /\ pc' = "done"
    /\ response' = Ended(CASE result.t = "raised" -> "crash"
                           [] result.t = "path" -> "completed"
                           [] OTHER -> "nothing created")
    /\ UNCHANGED <<pureVars, entry, tempCsv, tempDir, outFiles, clock, selected, idx,
                   attempts, transcriptions, lastCall, result, lastWrite, calls>>

LibraryFinish ==
    /\ pc = "returned"
    /\ entry = "library"
    /\ pc' = "done"
    /\ response' = Ended(IF result.t = "raised" THEN "raised" ELSE "returned")
    /\ UNCHANGED <<pureVars, entry, tempCsv, tempDir, outFiles, clock, selected, idx,
                   attempts, transcriptions, lastCall, result, lastWrite, calls>>

Next ==
    \/ HandlerStart
    \/ MainStart
    \/ LibraryStart
    \/ Construct
    \/ ProcessCsvFile
    \/ CallTranscribePosts
    \/ TranscribePost
    \/ FinishTranscribe
    \/ HandlerFinish
    \/ MainFinish
    \/ LibraryFinish

Spec == Init /\ [][Next]_vars

\* the posts of the first k whose url is not empty, in order
RECURSIVE WithUrl(_, _)
WithUrl(posts, k) ==
    IF k = 0 THEN <<>>
    ELSE IF Get(posts[k].d, K_url, UrlV(U_empty)).s = <<>>
         THEN WithUrl(posts, k - 1)
         ELSE Append(WithUrl(posts, k - 1), k)

\* C7: a failure of post i never keeps a later post from being attempted:
\* transcribe_posts calls process_url for every selected post with a
\* non-empty url exactly once, in selection order, and returns None, not an
\* exception, when no post succeeded.
C7_EveryPostAttempted ==
    /\ pc \in {"loop", "returned", "done"} =>
          /\ idx <= Len(selected) + 1
          /\ Len(attempts) = Len(WithUrl(selected, idx - 1))
          /\ \A k \in 1..Len(attempts) :
                attempts[k].post_number = WithUrl(selected, idx - 1)[k]
    /\ result.stage \in {"transcribe_posts", "create_combined_document"} =>
          /\ idx = Len(selected) + 1
          /\ (\A k \in 1..Len(attempts) : ~attempts[k].success) => result.t = "none"

\* the first post's pipeline let an exception escape, the second was still
\* attempted, and the call returned None
C7_Witness ==
    /\ result.stage = "transcribe_posts"
    /\ result.t = "none"
    /\ Len(selected) = 2
    /\ Len(attempts) = 2
    /\ lastCall.outcome = "save_failed"
    /\ ~attempts[1].success

\* C9 as stated: after a call of process_url that entered the media
\* pipeline no file of the post remains in the temporary directory.
C9_NoTempFileRemains ==
    lastCall.entered => tempDir.files = {}

\* C9 as amended: after a call of process_url that entered the media
\* pipeline, whatever its outcome, the only files that remain in the
\* temporary directory are files whose removal raised.
C9_OnlyRefusedFilesRemain ==
    lastCall.entered => tempDir.files \subseteq lastCall.refused

\* an exception escaped process_url; the video was removed, the audio file's
\* removal raised
C9_Witness ==
    /\ lastCall.entered
    /\ lastCall.outcome = "save_failed"
    /\ lastCall.refused = {"audio"}
    /\ tempDir.files = {"audio"}
    /\ pc = "loop"

\* C11: the handler answers success = true only when a report file was
\* written, and output_text is then that file's content; whenever no report
\* was produced (no posts provided, no video posts, every post failed, an
\* exception) it answers success = false with an error message.
C11_HandlerResponse ==
    (entry = "handler" /\ pc = "done") =>
        /\ response.kind \in {"success", "failure"}
        /\ response.kind = "success" =>
              /\ result.t = "path"
              /\ Exists(outFiles, result.path)
              /\ response.output_file = result.path
              /\ \E f \in outFiles :
                    f.name = result.path /\ response.output_text = TextOf(f.body)
        /\ result.t # "path" => response.kind = "failure"

\* the calls of process_url that returned True, in order
Successes == SelectSeq(attempts, LAMBDA a : a.success)

\* C16: a selected post whose download, audio extraction and transcription
\* all completed without error has a TranscriptionResult, also when the
\* transcription text is empty, and the report written lists it.
C16_CompletedPostIncluded ==
    /\ \A k \in 1..Len(attempts) :
          attempts[k].outcome \in {"ok", "empty_text"} =>
              \E j \in 1..Len(transcriptions) :
                  transcriptions[j].post_number = attempts[k].post_number
    /\ (result.t = "path" /\ Exists(outFiles, result.path)) =>
          \A k \in 1..Len(attempts) :
              attempts[k].outcome \in {"ok", "empty_text"} =>
                  \E f \in outFiles :
                      /\ f.name = result.path
                      /\ \E j \in 1..Len(f.body) :
                            f.body[j].post_number = attempts[k].post_number

\* C17: the report holds one entry for exactly the selected posts whose
\* media pipeline succeeded, in selection order, and whenever at least one
\* post succeeded transcribe_posts writes a report and returns its path.
C17_ReportOfSuccesses ==
    result.stage \in {"transcribe_posts", "create_combined_document"} =>
        /\ Successes # <<>> =>
              /\ result.t = "path"
              /\ Exists(outFiles, result.path)
        /\ result.t = "path" =>
              \A f \in outFiles :
                  f.name = result.path =>
                      /\ Len(f.body) = Len(Successes)
                      /\ \A j \in 1..Len(f.body) :
                            f.body[j].post_number = Successes[j].post_number

\* C18: the per-post transcription files are deleted only once the combined
\* report is completely written; deletion is attempted for every
\* TranscriptionResult, also after an earlier deletion failed (a file that
\* remains is one whose unlink raised); and no failure of a deletion or of
\* the transcriber's cleanup propagates or changes the returned path.
C18_CleanupAfterReport ==
    /\ [](result.stage = "transcribe_posts" /\ transcriptions # <<>> =>
              /\ result.t = "path"
              /\ result.path = lastWrite.name
              /\ \E f \in outFiles :
                    f.name = result.path /\ Len(f.body) = Len(transcriptions)
              /\ \A i \in 1..Len(transcriptions) :
                    Exists(outFiles, transcriptions[i].file_path) =>
                        transcriptions[i].file_path \in lastWrite.refused)
    /\ [][(\E f \in outFiles : f.name.kind = "transcription" /\ ~Exists(outFiles', f.name)) =>
              /\ result'.t = "path"
              /\ \E g \in outFiles' :
                    g.name = result'.path /\ Len(g.body) = Len(transcriptions)]_vars

\* two results; the unlink of the first one's file raised, the second file
\* was removed all the same, the temporary directory could not be removed,
\* and the report's path was returned
C18_Witness ==
    /\ result.t = "path"
    /\ result.stage = "transcribe_posts"
    /\ Len(transcriptions) = 2
    /\ transcriptions[1].file_path # transcriptions[2].file_path
    /\ lastWrite.refused = {transcriptions[1].file_path}
    /\ Exists(outFiles, transcriptions[1].file_path)
    /\ ~Exists(outFiles, transcriptions[2].file_path)
    /\ Exists(outFiles, result.path)
    /\ tempDir.exists

\* C20: every TranscriptionResult holds the text the media pipeline produced
\* for its own url in that iteration, and as file name the name of the file
\* save_transcription wrote for that url: never a file of another post, of
\* an earlier run, or a report.
C20_ResultOfOwnUrl ==
    \A i \in 1..Len(transcriptions) :
        /\ transcriptions[i].transcription = transcriptions[i].url
        /\ transcriptions[i].file_path.kind = "transcription"
        /\ transcriptions[i].file_path.id = SafeUrl(transcriptions[i].url)

\* C21: the post number of a report entry is the post's 1-based position in
\* the selected list, not its position among the successes: the numbers are
\* strictly increasing, lie in 1..number of selected posts and are exactly
\* the positions of the posts that succeeded, while the header's total and
\* the N of a batch file name are the number of successes.
C21_PostNumbersArePositions ==
    result.t = "path" =>
        \A f \in outFiles :
            f.name = result.path =>
                /\ \A j \in 1..Len(f.body) :
                      /\ f.body[j].post_number \in 1..Len(selected)
                      /\ f.body[j].url =
                             Get(selected[f.body[j].post_number].d, K_url, UrlV(U_empty)).s
                      /\ \E k \in 1..Len(attempts) :
                            /\ attempts[k].success
                            /\ attempts[k].post_number = f.body[j].post_number
                /\ \A j \in 1..(Len(f.body) - 1) :
                      f.body[j].post_number < f.body[j + 1].post_number
                /\ \A k \in 1..Len(attempts) :
                      attempts[k].success <=>
                          \E j \in 1..Len(f.body) :
                              f.body[j].post_number = attempts[k].post_number
                /\ f.total = Len(Successes)
                /\ f.name.kind = "top" => f.name.n = Len(Successes)

\* the first of two selected posts failed, the second succeeded: the batch
\* report <profile>top1transcripts holds one entry, numbered 2
C21_Witness ==
    /\ result.t = "path"
    /\ Len(selected) = 2
    /\ Len(attempts) = 2
    /\ ~attempts[1].success
    /\ attempts[2].success
    /\ result.path.kind = "top"
    /\ result.path.n = 1
    /\ \E f \in outFiles :
          /\ f.name = result.path
          /\ f.total = 1
          /\ Len(f.body) = 1
          /\ f.body[1].post_number = 2

\* C10: when a run has ended, the temporary directory made by
\* InstaTranscriber.__init__ and the handler's temporary CSV file are gone.
C10_TempResourcesReleased ==
    pc = "done" => (~tempDir.exists /\ ~tempCsv)


(***************************************************************************)
(* Specification of the report writer: up to MaxCalls calls of             *)
(* create_combined_document on one output directory, the clock advancing   *)
(* between them or not.  Each call is given up to MaxResults results, as   *)
(* transcribe_posts builds them from the files save_transcription wrote.   *)
(***************************************************************************)
ReportProfiles == {P_alice, <<"bob">>}

ReportUrls == {U_reel, U_post}

\* k results: the first for any of the urls, the others for the reel
ResultLists(now) ==
    UNION {{[i \in 1..k |->
                LET u == IF i = 1 THEN first ELSE U_reel
                IN  [post_number |-> i, url |-> u, transcription |-> u,
                     csv_data |-> Post(i, << <<K_url, UrlV(u)>> >>),
                     file_path |-> TranscriptionName(now, u)]] :
               first \in ReportUrls} : k \in 1..MaxResults}

InitReport ==
    /\ PureIdle
    /\ pc = "report"
    /\ entry = "none"
    /\ tempCsv = FALSE
    /\ tempDir = [exists |-> FALSE, files |-> {}]
    /\ outFiles = {}
    /\ clock = 0
    /\ selected = <<>>
    /\ idx = 1
    /\ attempts = <<>>
    /\ transcriptions = <<>>
    /\ lastCall = NoCall
    /\ result = [t |-> "pending", path |-> NoName, stage |-> "none"]
    /\ response = Ended("pending")
    /\ lastWrite = NoWrite
    /\ calls = 0

\* a second passes
ReportTick ==
    /\ pc = "report"
    /\ clock < MaxClock
    /\ clock' = clock + 1
    /\ UNCHANGED <<pureVars, pc, entry, tempCsv, tempDir, outFiles, selected, idx, attempts,
                   transcriptions, lastCall, result, response, lastWrite, calls>>

\* one call of create_combined_document
WriteReport ==
    /\ pc = "report"
    /\ calls < MaxCalls
    /\ \E profile_name \in ReportProfiles, quick_transcribe \in BOOLEAN,
          trans \in ResultLists(clock) :
          LET doc == create_combined_document(outFiles, clock, trans,
                                              profile_name, quick_transcribe, {})
          IN  /\ outFiles' = doc.files
              /\ lastWrite' = [name |-> doc.path, existed |-> doc.existed,
                               computed |-> doc.computed,
                               collided |-> Exists(outFiles, doc.computed),
                               refused |-> {}]
              /\ result' = [t |-> "path", path |-> doc.path,
                            stage |-> "create_combined_document"]
    /\ calls' = calls + 1
    /\ UNCHANGED <<pureVars, pc, entry, tempCsv, tempDir, clock, selected, idx, attempts,
                   transcriptions, lastCall, response>>

NextReport == ReportTick \/ WriteReport

SpecReport == InitReport /\ [][NextReport]_vars

\* C8: create_combined_document never overwrites a report that exists: the
\* file it opens for writing did not exist before the call.
C8_NeverOverwrites ==
    ~lastWrite.existed

\* C13: when the filename create_combined_document computed first exists
\* already, the file written is named by that filename with a fresh timestamp
\* appended: of the form quick_<profile>_<shortID>_<timestamp> in quick mode,
\* <profile>top<N>transcripts in batch mode.
C13_CollisionKeepsForm ==
    (calls > 0 /\ lastWrite.collided) =>
        /\ lastWrite.name.kind = lastWrite.computed.kind
        /\ lastWrite.name.profile = lastWrite.computed.profile
        /\ lastWrite.name.id = lastWrite.computed.id
        /\ lastWrite.name.n = lastWrite.computed.n
        /\ lastWrite.name.ts \in 0..clock

=============================================================================
